---- MODULE Spec2Model ----
(***************************************************************************)
(* A model of msl.equipment.connection_message_based.ConnectionMessageBased *)
(* (src/msl/equipment/connection_message_based.py): the configuration       *)
(* fields of a message-based connection, their property setters, and the    *)
(* write / sleep / read sequence of query().                                *)
(*                                                                          *)
(* Python values are records [tag, v]: tag is the Python type and v the     *)
(* value.  A float's v counts halves (v = 3 is 1.5), an int's v is the int  *)
(* itself, a bool's v is 0 or 1.  Strings of characters are sequences of    *)
(* code points.                                                             *)
(***************************************************************************)
EXTENDS Integers, Sequences, FiniteSets, TLC

\* ------------------------------------------------------------------ bounds
\* Integer arguments range over -MaxNum..MaxNum, float arguments over
\* -MaxNum/2 .. MaxNum/2 in steps of one half.
MaxNum == 2

\* ------------------------------------------------------------ Python values
PyNone == [tag |-> "None", v |-> 0]
PyInt(n) == [tag |-> "int", v |-> n]
PyFloat(h) == [tag |-> "float", v |-> h]
PyBool(b) == [tag |-> "bool", v |-> IF b THEN 1 ELSE 0]
PyStr == [tag |-> "str", v |-> 0]

\* The numeric value of a number, in halves (the unit of a float's v).
Halves(x) == IF x.tag = "float" THEN x.v ELSE 2 * x.v

\* Python's == between two values that are None or numbers.
PyEq(a, b) ==
    IF a.tag = "None" \/ b.tag = "None" THEN a.tag = b.tag
    ELSE Halves(a) = Halves(b)

\* float(value): [exc, val].  A non-numeric str raises ValueError.
float(value) ==
    IF value.tag \in {"int", "bool", "float"}
    THEN [exc |-> "none", val |-> PyFloat(Halves(value))]
    ELSE [exc |-> "ValueError", val |-> PyNone]

\* isinstance(size, int): bool is a subclass of int.
isinstance_int(size) == size.tag \in {"int", "bool"}

\* int(size) of an int or a bool.
int(size) == PyInt(size.v)

\* ------------------------------------------------------- character strings
CR == <<13>>
LF == <<10>>

RECURSIVE Digits(_)
Digits(n) == IF n < 10 THEN <<48 + n>> ELSE Digits(n \div 10) \o <<48 + (n % 10)>>

\* str(termination) of a str (itself) or of an int (its decimal digits).
str(t) ==
    IF t.tag = "str" THEN t.s
    ELSE IF t.v < 0 THEN <<45>> \o Digits(-t.v) ELSE Digits(t.v)

TermNone == [tag |-> "None", s |-> <<>>, v |-> 0]
TermStr(s) == [tag |-> "str", s |-> s, v |-> 0]
TermInt(n) == [tag |-> "int", s |-> <<>>, v |-> n]

\* ------------------------------------------------------------------ codecs
\* 'test encoding', the probe string of the encoding setter.
ProbeString == <<116, 101, 115, 116, 32, 101, 110, 99, 111, 100, 105, 110, 103>>

\* The codec registry: the codec a name looks up, "unknown" when there is none.
\* The lookup normalises the name, so 'UTF8' and 'utf-8' name one codec.
Lookup(name) ==
    CASE name \in {"utf-8", "UTF8"} -> "utf_8"
      [] name = "ascii" -> "ascii"
      [] name = "utf-16" -> "utf_16"
      [] name = "rot13" -> "rot_13"
      [] name = "undefined" -> "undefined"
      [] OTHER -> "unknown"

RECURSIVE Utf16Bytes(_)
Utf16Bytes(s) ==
    IF s = <<>> THEN <<>>
    ELSE <<Head(s) % 256, Head(s) \div 256>> \o Utf16Bytes(Tail(s))

RECURSIVE Utf16Chars(_)
Utf16Chars(b) ==
    IF Len(b) < 2 THEN <<>>
    ELSE <<b[1] + 256 * b[2]>> \o Utf16Chars(SubSeq(b, 3, Len(b)))

\* UTF-8 of code points below 2048: one byte below 128, two bytes from there.
RECURSIVE Utf8Bytes(_)
Utf8Bytes(s) ==
    IF s = <<>> THEN <<>>
    ELSE (IF Head(s) < 128 THEN <<Head(s)>>
          ELSE <<192 + (Head(s) \div 64), 128 + (Head(s) % 64)>>) \o Utf8Bytes(Tail(s))

RECURSIVE Utf8Valid(_)
Utf8Valid(b) ==
    IF b = <<>> THEN TRUE
    ELSE IF b[1] < 128 THEN Utf8Valid(Tail(b))
    ELSE /\ b[1] >= 194 /\ b[1] < 224
         /\ Len(b) >= 2 /\ b[2] >= 128 /\ b[2] < 192
         /\ Utf8Valid(SubSeq(b, 3, Len(b)))

RECURSIVE Utf8Chars(_)
Utf8Chars(b) ==
    IF b = <<>> THEN <<>>
    ELSE IF b[1] < 128 THEN <<b[1]>> \o Utf8Chars(Tail(b))
    ELSE <<(b[1] - 192) * 64 + (b[2] - 128)>> \o Utf8Chars(SubSeq(b, 3, Len(b)))

\* str.encode(encoding): [exc, bytes].
Encode(s, enc) ==
    IF enc.tag # "str" THEN [exc |-> "TypeError", bytes |-> <<>>]
    ELSE LET codec == Lookup(enc.name) IN
      CASE codec = "unknown" -> [exc |-> "LookupError", bytes |-> <<>>]
        [] codec = "rot_13" -> [exc |-> "LookupError", bytes |-> <<>>]
        [] codec = "undefined" -> [exc |-> "UnicodeError", bytes |-> <<>>]
        [] codec = "ascii" ->
             IF \E i \in 1..Len(s) : s[i] > 127
             THEN [exc |-> "UnicodeEncodeError", bytes |-> <<>>]
             ELSE [exc |-> "none", bytes |-> s]
        [] codec = "utf_8" -> [exc |-> "none", bytes |-> Utf8Bytes(s)]
        [] codec = "utf_16" ->
             [exc |-> "none", bytes |-> <<255, 254>> \o Utf16Bytes(s)]

\* bytes.decode(encoding): [exc, chars].
Decode(b, enc) ==
    IF enc.tag # "str" THEN [exc |-> "TypeError", chars |-> <<>>]
    ELSE LET codec == Lookup(enc.name) IN
      CASE codec = "unknown" -> [exc |-> "LookupError", chars |-> <<>>]
        [] codec = "rot_13" -> [exc |-> "LookupError", chars |-> <<>>]
        [] codec = "undefined" -> [exc |-> "UnicodeError", chars |-> <<>>]
        [] codec = "ascii" ->
             IF \E i \in 1..Len(b) : b[i] > 127
             THEN [exc |-> "UnicodeDecodeError", chars |-> <<>>]
             ELSE [exc |-> "none", chars |-> b]
        [] codec = "utf_8" ->
             IF Utf8Valid(b)
             THEN [exc |-> "none", chars |-> Utf8Chars(b)]
             ELSE [exc |-> "UnicodeDecodeError", chars |-> <<>>]
        [] codec = "utf_16" ->
             IF Len(b) % 2 # 0
             THEN [exc |-> "UnicodeDecodeError", chars |-> <<>>]
             ELSE IF Len(b) >= 2 /\ b[1] = 255 /\ b[2] = 254
                  THEN [exc |-> "none", chars |-> Utf16Chars(SubSeq(b, 3, Len(b)))]
                  ELSE [exc |-> "none", chars |-> Utf16Chars(b)]

\* 'test encoding'.encode(encoding).decode(encoding): the exception it raises,
\* "none" when it returns.
Probe(enc) ==
    LET e == Encode(ProbeString, enc) IN
    IF e.exc # "none" THEN e.exc ELSE Decode(e.bytes, enc).exc

EncName(name) == [tag |-> "str", name |-> name]
EncNone == [tag |-> "None", name |-> ""]

\* ------------------------------------------------------------------- state
VARIABLES
    read_termination,   \* self._read_termination: TermNone or TermStr(s)
    write_termination,  \* self._write_termination: TermNone or TermStr(s)
    encoding,           \* self._encoding: a codec name
    max_read_size,      \* self._max_read_size
    timeout,            \* self._timeout: PyNone or a float
    overridden,         \* whether the class of the object overrides read and write
    pc,                 \* where the caller is: "idle", or inside query at "write", "sleep", "read"
    q,                  \* the arguments of the query call in progress
    events,             \* what the call in progress, or the last one, did, in order
    last,               \* the last call that returned or raised: [op, arg, exc]
    prev,               \* the configuration when that call was made
    calls,              \* the calls query has made, with their arguments, in order
    obs,                \* what write and read did inside query, and the time slept
    out,                \* what the last call handed back: return value, message, log lines
    dev                 \* the Kinesis SDK behind a KCubeStepperMotor (further down)

vars == <<read_termination, write_termination, encoding, max_read_size, timeout,
          overridden, pc, q, events, last, prev, calls, obs, out, dev>>

config == [read_termination |-> read_termination,
           write_termination |-> write_termination,
           encoding |-> encoding,
           max_read_size |-> max_read_size,
           timeout |-> timeout]

\* ----------------------------------------------------------- construction
\* The fields __init__ assigns.
InitConfigSwappedTermination ==
    [read_termination |-> TermStr(LF),
     write_termination |-> TermStr(LF \o CR),
     encoding |-> "utf-8",
     max_read_size |-> PyInt(2^16),
     timeout |-> PyNone]

InitConfig ==
    [read_termination |-> TermStr(LF),
     write_termination |-> TermStr(CR \o LF),
     encoding |-> "utf-8",
     max_read_size |-> PyInt(2^16),
     timeout |-> PyNone]

NoCall == [message |-> <<>>, delay |-> PyFloat(0), size |-> PyNone]

\* Values a call returns: None, an int, or a str.
RetNone == [kind |-> "None", s |-> <<>>, n |-> 0]
RetInt(n) == [kind |-> "int", s |-> <<>>, n |-> n]
RetStr(s) == [kind |-> "str", s |-> s, n |-> 0]

\* How a call of write or read ended: the exception raised ("none" when it
\* returned) and the value returned.
NoOutcome == [exc |-> "none", ret |-> RetNone]

\* Nothing observed yet: w and r are the outcomes of write and read, sent the
\* bytes write transmitted, gap the time between the return of write and now.
NoObs == [w |-> NoOutcome, r |-> NoOutcome, sent |-> <<>>, gap |-> 0]

NoOut == [ret |-> RetNone, msg |-> <<>>, log |-> <<>>]

\* The calls query makes.
WriteCall(message) == [fn |-> "write", msg |-> message, num |-> PyNone]
SleepCall(delay) == [fn |-> "sleep", msg |-> <<>>, num |-> delay]
ReadCall(size) == [fn |-> "read", msg |-> <<>>, num |-> size]

\* No Kinesis device is involved in the message-based connection.
NoDevice == [kind |-> "none"]

Init ==
    /\ read_termination = InitConfig.read_termination
    /\ write_termination = InitConfig.write_termination
    /\ encoding = InitConfig.encoding
    /\ max_read_size = InitConfig.max_read_size
    /\ timeout = InitConfig.timeout
    /\ overridden \in BOOLEAN
    /\ pc = "idle"
    /\ q = NoCall
    /\ events = <<>>
    /\ last = [op |-> "__init__", arg |-> PyNone, exc |-> "none"]
    /\ prev = InitConfig
    /\ calls = <<>>
    /\ obs = NoObs
    /\ out = NoOut
    /\ dev = NoDevice

\* ------------------------------------------------- the setters, as functions
\* Each gives [val, exc]: the field after the call and the exception raised.

\* encoding.setter, without the probe.
encoding_setter_unchecked(old, enc) ==
    IF enc.tag = "str" THEN [val |-> enc.name, exc |-> "none"]
    ELSE [val |-> old, exc |-> "TypeError"]

\* encoding.setter assigning before it probes.
encoding_setter_assign_first(old, enc) ==
    IF enc.tag # "str" THEN [val |-> old, exc |-> "TypeError"]
    ELSE [val |-> enc.name, exc |-> Probe(enc)]

encoding_setter(old, enc) ==
    IF Probe(enc) # "none" THEN [val |-> old, exc |-> Probe(enc)]
    ELSE [val |-> enc.name, exc |-> "none"]

\* read_termination.setter and write_termination.setter.
termination_setter(termination) ==
    IF termination.tag = "None" THEN TermNone ELSE TermStr(str(termination))

\* max_read_size.setter with the bound off by one (size < 0).
max_read_size_setter_off_by_one(old, size) ==
    IF ~isinstance_int(size) \/ size.v < 0 THEN [val |-> old, exc |-> "ValueError"]
    ELSE [val |-> int(size), exc |-> "none"]

\* max_read_size.setter assigning before it validates.
max_read_size_setter_assign_first(old, size) ==
    IF ~isinstance_int(size) THEN [val |-> old, exc |-> "ValueError"]
    ELSE IF size.v < 1 THEN [val |-> int(size), exc |-> "ValueError"]
    ELSE [val |-> int(size), exc |-> "none"]

max_read_size_setter(old, size) ==
    IF ~isinstance_int(size) \/ size.v < 1 THEN [val |-> old, exc |-> "ValueError"]
    ELSE [val |-> int(size), exc |-> "none"]

\* _set_timeout_value without the collapse of 0.0 to None.
set_timeout_value_keep_zero(old, value) ==
    IF value.tag = "None" THEN [val |-> old, exc |-> "none"]
    ELSE IF float(value).exc # "none" THEN [val |-> old, exc |-> float(value).exc]
    ELSE LET f == float(value).val IN
         IF f.v < 0 THEN [val |-> f, exc |-> "ValueError"]
         ELSE [val |-> f, exc |-> "none"]

\* _set_timeout_value: the float is stored before it is checked.
set_timeout_value(old, value) ==
    IF value.tag = "None" THEN [val |-> old, exc |-> "none"]
    ELSE IF float(value).exc # "none" THEN [val |-> old, exc |-> float(value).exc]
    ELSE LET f == float(value).val IN
         IF f.v = 0 THEN [val |-> PyNone, exc |-> "none"]
         ELSE IF f.v < 0 THEN [val |-> f, exc |-> "ValueError"]
         ELSE [val |-> f, exc |-> "none"]

\* query, line 178: what follows the return of write, with >= for >.
after_write_sleep_on_zero(delay) == IF Halves(delay) >= 0 THEN "sleep" ELSE "read"

\* query that never sleeps.
after_write_never_sleeps(delay) == "read"

\* query, line 178: what follows the return of write.
after_write(delay) == IF Halves(delay) > 0 THEN "sleep" ELSE "read"

\* query with a handler that retries the call that raised.
raise_in_query_retry(callee, e) == [pc |-> callee, exc |-> "none"]

\* query with a handler that swallows an error of write and goes on to read.
raise_in_query_swallow_write(callee, e) ==
    IF callee = "write" THEN [pc |-> "read", exc |-> "none"]
    ELSE [pc |-> "idle", exc |-> e]

\* query, lines 177-180: no try/except, so an exception raised by write or
\* read leaves query at once as the same exception.  pc is where control
\* goes, exc what query raises.
raise_in_query(callee, e) == [pc |-> "idle", exc |-> e]

\* query returning what write returned.
query_return_of_write(wret, rret) == wret

\* query, line 180: return self.read(size).
query_return(wret, rret) == rret

\* The call query makes on arriving at pos.
next_call(pos, args) ==
    CASE pos = "write" -> WriteCall(args.message)
      [] pos = "sleep" -> SleepCall(args.delay)
      [] pos = "read" -> ReadCall(args.size)

\* The parts of a message or of a log line: literal text and formatted values.
Lit(s) == [k |-> "lit", s |-> s, v |-> PyNone]
Fmt(x) == [k |-> "fmt", s |-> "", v |-> x]
Repr == [k |-> "repr(self)", s |-> "", v |-> PyNone]

AppendMsg(s) == [tag |-> "str", text |-> s]

\* raise_timeout raising without logging.
raise_timeout_no_log(tmo, append_msg) ==
    LET msg == <<Lit("Timeout occurred after "), Fmt(tmo), Lit(" seconds")>>
                 \o (IF append_msg.text # "" THEN <<Lit(" -- "), Lit(append_msg.text)>>
                     ELSE <<>>)
    IN [steps |-> <<"raise">>,
        log |-> <<>>,
        msg |-> <<Repr, Lit("\n")>> \o msg,
        exc |-> "MSLTimeoutError"]

\* raise_timeout, lines 117-121: steps are what it does, in order; log the
\* lines handed to log_error; msg the message of the exception.
raise_timeout(tmo, append_msg) ==
    LET msg == <<Lit("Timeout occurred after "), Fmt(tmo), Lit(" seconds")>>
                 \o (IF append_msg.text # "" THEN <<Lit(" -- "), Lit(append_msg.text)>>
                     ELSE <<>>)
    IN [steps |-> <<"log_error", "raise">>,
        log |-> << <<Repr, Lit(" ")>> \o msg >>,
        msg |-> <<Repr, Lit("\n")>> \o msg,
        exc |-> "MSLTimeoutError"]

\* A base-class write that returns instead of raising.
write_returns(message) == "none"

\* write and read of ConnectionMessageBased itself, lines 157 and 139: what
\* they raise.
write(message) == "NotImplementedError"
read(size) == "NotImplementedError"

\* write of a subclass that forgets the termination.
write_impl_no_termination(message, termination, enc) ==
    LET e == Encode(message, EncName(enc))
    IN [exc |-> e.exc, sent |-> e.bytes, ret |-> RetInt(Len(e.bytes))]

\* write as a subclass implements it: the message with write_termination
\* appended when it is set, encoded with the encoding, handed to the
\* transport; the number of bytes is returned.
write_impl(message, termination, enc) ==
    LET data == message \o (IF termination.tag = "None" THEN <<>> ELSE termination.s)
        e == Encode(data, EncName(enc))
    IN [exc |-> e.exc, sent |-> e.bytes, ret |-> RetInt(Len(e.bytes))]

\* ------------------------------------------------------------------ inputs
Ints == {PyInt(n) : n \in -MaxNum..MaxNum}
Floats == {PyFloat(h) : h \in -MaxNum..MaxNum}

TimeoutArgs == {PyNone, PyStr} \cup Ints \cup Floats
SizeArgs == {PyNone, PyStr, PyBool(TRUE), PyBool(FALSE), PyFloat(2), PyFloat(3)} \cup Ints
EncodingArgs ==
    {EncNone} \cup {EncName(n) : n \in {"utf-8", "ascii", "utf-16", "rot13",
                                        "undefined", "not-a-real-codec"}}
TerminationArgs == {TermNone, TermStr(LF), TermInt(10)}

Messages == {<<42, 73, 68, 78, 63>>}
Delays == {PyFloat(h) : h \in -1..MaxNum}
Sizes == {PyNone, PyInt(1)}
IOErrors == {"MSLTimeoutError", "OSError"}
Replies == {<<79, 75>>}
AppendMsgs == {AppendMsg(""), AppendMsg("reading")}
\* time.sleep(d) returns after d seconds or a little later.
Oversleep == {0, 1}

\* ----------------------------------------------------------------- actions
Returned(op, arg, exc) ==
    /\ last' = [op |-> op, arg |-> arg, exc |-> exc]
    /\ prev' = config
    /\ pc' = "idle"

NewCall ==
    /\ q' = NoCall /\ events' = <<>>
    /\ calls' = <<>> /\ obs' = NoObs /\ out' = NoOut
    /\ UNCHANGED dev

SetEncoding(enc) ==
    /\ pc = "idle"
    /\ encoding' = encoding_setter(encoding, enc).val
    /\ Returned("encoding", enc, encoding_setter(encoding, enc).exc)
    /\ NewCall
    /\ UNCHANGED <<read_termination, write_termination, max_read_size, timeout, overridden>>

SetReadTermination(termination) ==
    /\ pc = "idle"
    /\ read_termination' = termination_setter(termination)
    /\ Returned("read_termination", termination, "none")
    /\ NewCall
    /\ UNCHANGED <<write_termination, encoding, max_read_size, timeout, overridden>>

SetWriteTermination(termination) ==
    /\ pc = "idle"
    /\ write_termination' = termination_setter(termination)
    /\ Returned("write_termination", termination, "none")
    /\ NewCall
    /\ UNCHANGED <<read_termination, encoding, max_read_size, timeout, overridden>>

\* A max_read_size setter that also clears the timeout.
SetMaxReadSizeResetsTimeout(size) ==
    /\ pc = "idle"
    /\ max_read_size' = max_read_size_setter(max_read_size, size).val
    /\ timeout' = PyNone
    /\ Returned("max_read_size", size, max_read_size_setter(max_read_size, size).exc)
    /\ NewCall
    /\ UNCHANGED <<read_termination, write_termination, encoding, overridden>>

SetMaxReadSize(size) ==
    /\ pc = "idle"
    /\ max_read_size' = max_read_size_setter(max_read_size, size).val
    /\ Returned("max_read_size", size, max_read_size_setter(max_read_size, size).exc)
    /\ NewCall
    /\ UNCHANGED <<read_termination, write_termination, encoding, timeout, overridden>>

SetTimeoutValue(value) ==
    /\ pc = "idle"
    /\ timeout' = set_timeout_value(timeout, value).val
    /\ Returned("timeout", value, set_timeout_value(timeout, value).exc)
    /\ NewCall
    /\ UNCHANGED <<read_termination, write_termination, encoding, max_read_size, overridden>>

UNCHANGED_config ==
    UNCHANGED <<read_termination, write_termination, encoding, max_read_size, timeout,
                overridden, dev>>

\* write(message) called on an object whose class does not override it.
Write(message) ==
    /\ pc = "idle"
    /\ ~overridden
    /\ Returned("write", message, write(message))
    /\ NewCall
    /\ UNCHANGED <<read_termination, write_termination, encoding, max_read_size, timeout,
                   overridden>>

\* read(size) called on an object whose class does not override it.
Read(size) ==
    /\ pc = "idle"
    /\ ~overridden
    /\ Returned("read", size, read(size))
    /\ NewCall
    /\ UNCHANGED <<read_termination, write_termination, encoding, max_read_size, timeout,
                   overridden>>

\* raise_timeout(append_msg): logs the line, then raises.
RaiseTimeoutResetsTimeout(append_msg) ==
    /\ pc = "idle"
    /\ timeout' = PyNone
    /\ q' = NoCall /\ calls' = <<>> /\ obs' = NoObs
    /\ events' = raise_timeout(timeout, append_msg).steps
    /\ out' = [ret |-> RetNone,
               msg |-> raise_timeout(timeout, append_msg).msg,
               log |-> raise_timeout(timeout, append_msg).log]
    /\ Returned("raise_timeout", append_msg, raise_timeout(timeout, append_msg).exc)
    /\ UNCHANGED <<read_termination, write_termination, encoding, max_read_size,
                   overridden, dev>>

RaiseTimeout(append_msg) ==
    /\ pc = "idle"
    /\ q' = NoCall /\ calls' = <<>> /\ obs' = NoObs
    /\ events' = raise_timeout(timeout, append_msg).steps
    /\ out' = [ret |-> RetNone,
               msg |-> raise_timeout(timeout, append_msg).msg,
               log |-> raise_timeout(timeout, append_msg).log]
    /\ Returned("raise_timeout", append_msg, raise_timeout(timeout, append_msg).exc)
    /\ UNCHANGED_config

\* write or read raised e inside query: what query does about it.
Raised(callee, e) ==
    LET r == raise_in_query(callee, e) IN
    IF r.pc = "idle"
    THEN /\ events' = events \o <<callee \o "_raise">>
         /\ calls' = calls
         /\ out' = NoOut
         /\ Returned("query", q, r.exc)
    ELSE /\ events' = events \o <<callee \o "_raise", r.pc>>
         /\ calls' = calls \o <<next_call(r.pc, q)>>
         /\ pc' = r.pc
         /\ UNCHANGED <<out, last, prev>>

\* query is entered and calls self.write(message).
Query(message, delay, size) ==
    /\ pc = "idle"
    /\ pc' = "write"
    /\ q' = [message |-> message, delay |-> delay, size |-> size]
    /\ events' = <<"write">>
    /\ calls' = <<next_call("write", [message |-> message, delay |-> delay, size |-> size])>>
    /\ obs' = NoObs
    /\ out' = NoOut
    /\ UNCHANGED <<last, prev>>
    /\ UNCHANGED_config

\* write returns; query then calls time.sleep(delay) or self.read(size).
WriteReturn ==
    LET w == write_impl(q.message, write_termination, encoding) IN
    /\ pc = "write"
    /\ overridden
    /\ w.exc = "none"
    /\ pc' = after_write(q.delay)
    /\ events' = events \o <<"write_done", after_write(q.delay)>>
    /\ calls' = calls \o <<next_call(after_write(q.delay), q)>>
    /\ obs' = [obs EXCEPT !.w = [exc |-> "none", ret |-> w.ret], !.sent = w.sent, !.gap = 0]
    /\ UNCHANGED <<q, last, prev, out>>
    /\ UNCHANGED_config

\* write raises, and so does query: NotImplementedError from the base class,
\* an I/O error from a subclass.
WriteRaise(e) ==
    /\ pc = "write"
    /\ IF overridden THEN e \in IOErrors ELSE e = write(q.message)
    /\ obs' = [obs EXCEPT !.w = [exc |-> e, ret |-> RetNone]]
    /\ Raised("write", e)
    /\ UNCHANGED q
    /\ UNCHANGED_config

\* time.sleep returns; query then calls self.read(size).
SleepReturn(over) ==
    /\ pc = "sleep"
    /\ pc' = "read"
    /\ events' = events \o <<"sleep_done", "read">>
    /\ calls' = calls \o <<next_call("read", q)>>
    /\ obs' = [obs EXCEPT !.gap = @ + Halves(calls[Len(calls)].num) + over]
    /\ UNCHANGED <<q, last, prev, out>>
    /\ UNCHANGED_config

\* read returns, and query returns what it returned.
ReadReturn(reply) ==
    /\ pc = "read"
    /\ overridden
    /\ events' = events \o <<"read_done">>
    /\ obs' = [obs EXCEPT !.r = [exc |-> "none", ret |-> RetStr(reply)]]
    /\ out' = [out EXCEPT !.ret = query_return(obs.w.ret, RetStr(reply))]
    /\ Returned("query", q, "none")
    /\ UNCHANGED <<q, calls>>
    /\ UNCHANGED_config

\* read raises, and so does query.
ReadRaise(e) ==
    /\ pc = "read"
    /\ IF overridden THEN e \in IOErrors ELSE e = read(q.size)
    /\ obs' = [obs EXCEPT !.r = [exc |-> e, ret |-> RetNone]]
    /\ Raised("read", e)
    /\ UNCHANGED q
    /\ UNCHANGED_config

Next ==
    \/ \E enc \in EncodingArgs : SetEncoding(enc)
    \/ \E t \in TerminationArgs : SetReadTermination(t)
    \/ \E t \in TerminationArgs : SetWriteTermination(t)
    \/ \E size \in SizeArgs : SetMaxReadSize(size)
    \/ \E value \in TimeoutArgs : SetTimeoutValue(value)
    \/ \E m \in Messages, d \in Delays, s \in Sizes : Query(m, d, s)
    \/ WriteReturn
    \/ \E e \in IOErrors \cup {"NotImplementedError"} : WriteRaise(e)
    \/ \E over \in Oversleep : SleepReturn(over)
    \/ \E reply \in Replies : ReadReturn(reply)
    \/ \E a \in AppendMsgs : RaiseTimeout(a)
    \/ \E e \in IOErrors \cup {"NotImplementedError"} : ReadRaise(e)
    \/ \E m \in Messages : Write(m)
    \/ \E s \in Sizes : Read(s)

Spec == Init /\ [][Next]_vars

\* ------------------------------------------------------------- properties
IsNumber(x) == x.tag \in {"int", "float"}

\* A timeout that is unset or a float greater than 0.
UnsetOrPositive(x) == x = PyNone \/ (x.tag = "float" /\ x.v > 0)

\* C1: setting the timeout to a negative value raises an error and leaves the
\* stored timeout as it was before the call.
C1_NegativeTimeoutKeepsPrior ==
    (last.op = "timeout" /\ IsNumber(last.arg) /\ Halves(last.arg) < 0
       /\ UnsetOrPositive(prev.timeout))
        => (last.exc # "none" /\ timeout = prev.timeout)

\* C2: in every reachable state the stored timeout is None or strictly
\* greater than 0.
C2_TimeoutNoneOrPositive == UnsetOrPositive(timeout)

\* C3: after _set_timeout_value(None) the timeout reads None, whether it was
\* unset or a positive value before.
C3_NoneClearsTimeout ==
    (last.op = "timeout" /\ last.arg = PyNone /\ UnsetOrPositive(prev.timeout))
        => timeout = PyNone

\* C4: setting the timeout to t > 0 succeeds and the timeout then reads t;
\* setting it to 0 succeeds and the timeout then reads None.
C4_PositiveStoredZeroUnset ==
    (last.op = "timeout" /\ IsNumber(last.arg)) =>
        /\ Halves(last.arg) > 0 =>
             (last.exc = "none" /\ timeout # PyNone /\ PyEq(timeout, last.arg))
        /\ Halves(last.arg) = 0 => (last.exc = "none" /\ timeout = PyNone)

\* A timeout of 0.5 was stored and timeout = 0 then cleared it.
C4_Witness ==
    /\ last = [op |-> "timeout", arg |-> PyInt(0), exc |-> "none"]
    /\ prev.timeout = PyFloat(1)
    /\ timeout = PyNone
    /\ pc = "idle"

\* C5: assigning max_read_size an int n >= 1 succeeds and it then reads n;
\* assigning n <= 0 or a value that is no int raises ValueError and
\* max_read_size keeps its value.
C5_MaxReadSizeAcceptsPositiveInts ==
    last.op = "max_read_size" =>
        IF isinstance_int(last.arg) /\ last.arg.v >= 1
        THEN last.exc = "none" /\ PyEq(max_read_size, last.arg)
        ELSE last.exc = "ValueError" /\ max_read_size = prev.max_read_size

\* max_read_size was 2 and the assignment of 0 was rejected.
C5_Witness ==
    /\ last = [op |-> "max_read_size", arg |-> PyInt(0), exc |-> "ValueError"]
    /\ prev.max_read_size = PyInt(2)
    /\ max_read_size = PyInt(2)
    /\ pc = "idle"

\* C6: in every reachable state max_read_size is an int >= 1.
C6_MaxReadSizeAtLeastOne ==
    max_read_size.tag = "int" /\ max_read_size.v >= 1

\* max_read_size was set to 1 and a later assignment was rejected.
C6_Witness ==
    /\ last.op = "max_read_size" /\ last.exc = "ValueError"
    /\ max_read_size = PyInt(1)
    /\ pc = "idle"

\* C7: assigning an encoding whose encode-then-decode probe fails raises and
\* leaves the encoding as it was; when the probe succeeds the encoding
\* becomes the new name.
C7_EncodingProbeGuardsAssignment ==
    last.op = "encoding" =>
        IF Probe(last.arg) # "none"
        THEN last.exc # "none" /\ encoding = prev.encoding
        ELSE last.exc = "none" /\ encoding = last.arg.name

\* The encoding was utf-16 and the assignment of an unknown codec was rejected.
C7_Witness ==
    /\ last = [op |-> "encoding", arg |-> EncName("not-a-real-codec"),
               exc |-> "LookupError"]
    /\ prev.encoding = "utf-16"
    /\ encoding = "utf-16"
    /\ pc = "idle"

\* C8: in every reachable state the stored encoding is a codec name for which
\* the encode/decode probe succeeds.
C8_EncodingAlwaysValid == Probe(EncName(encoding)) = "none"

\* An existing codec that cannot encode the probe was assigned and rejected.
C8_Witness ==
    /\ last = [op |-> "encoding", arg |-> EncName("undefined"), exc |-> "UnicodeError"]
    /\ encoding = "ascii"
    /\ pc = "idle"

\* C9: after construction, before any call, read_termination is LF,
\* write_termination is CR LF, encoding is utf-8, max_read_size is 65536 and
\* timeout is None.
C9_Defaults ==
    last.op = "__init__" =>
        /\ read_termination = TermStr(<<10>>)
        /\ write_termination = TermStr(<<13, 10>>)
        /\ encoding = "utf-8"
        /\ max_read_size = PyInt(65536)
        /\ timeout = PyNone

\* The object has just been constructed.
C9_Witness == last.op = "__init__" /\ pc = "idle" /\ events = <<>> /\ prev = config

Before(a, i) == \E j \in 1..(i - 1) : events[j] = a

\* C10: within one query call read starts only after write has returned, the
\* sleep starts only after write has returned, and when read starts the sleep
\* has happened if and only if delay > 0.
C10_QueryOrder ==
    \A i \in 1..Len(events) :
        /\ events[i] = "sleep" => (Before("write_done", i) /\ ~Before("read", i))
        /\ events[i] = "read" =>
             /\ Before("write_done", i)
             /\ Before("sleep_done", i) <=> Halves(q.delay) > 0
             /\ Before("sleep_done", i) <=> Before("sleep", i)
        /\ events[i] = "write" => i = 1

\* A query with a positive delay wrote, slept, read and returned.
C10_Witness ==
    /\ last.op = "query" /\ last.exc = "none" /\ pc = "idle"
    /\ Halves(q.delay) > 0
    /\ events = <<"write", "write_done", "sleep", "sleep_done", "read", "read_done">>

HasEvent(a) == \E i \in 1..Len(events) : events[i] = a
Count(a) == Cardinality({i \in 1..Len(events) : events[i] = a})

\* query has returned or raised, and nothing was called since.
QueryDone == last.op = "query" /\ pc = "idle"

\* C11: when write raises inside query, query raises the same error and
\* neither sleeps nor reads; when write returns and read raises, query raises
\* the error of read.
C11_QueryFailsWithCalleeError ==
    QueryDone =>
        /\ obs.w.exc # "none" =>
             /\ last.exc = obs.w.exc
             /\ ~HasEvent("sleep") /\ ~HasEvent("read")
             /\ calls = <<WriteCall(q.message)>>
        /\ (obs.w.exc = "none" /\ obs.r.exc # "none") => last.exc = obs.r.exc

\* write raised OSError in a query with a positive delay, and query raised it.
C11_Witness ==
    /\ QueryDone
    /\ obs.w.exc = "OSError" /\ last.exc = "OSError"
    /\ Halves(q.delay) > 0
    /\ events = <<"write", "write_raise">>

\* C12: one query call calls write exactly once and read at most once,
\* whatever they raise, and an error of either reaches the caller.
C12_NoRetryNoSwallow ==
    /\ (pc # "idle" \/ last.op = "query") => (Count("write") = 1 /\ Count("read") <= 1)
    /\ (QueryDone /\ (obs.w.exc # "none" \/ obs.r.exc # "none")) => last.exc # "none"

\* read timed out in a query, after one write and one read.
C12_Witness ==
    /\ QueryDone
    /\ last.exc = "MSLTimeoutError"
    /\ events = <<"write", "write_done", "read", "read_raise">>

\* write(message) followed, when it returned, by read(size), as the caller
\* would run them: the calls made, the value returned and the error raised,
\* given how write (w) and read (r) end.
WriteThenRead(message, size, w, r) ==
    IF w.exc # "none"
    THEN [calls |-> <<[fn |-> "write", msg |-> message, num |-> PyNone]>>,
          ret |-> RetNone, exc |-> w.exc]
    ELSE [calls |-> <<[fn |-> "write", msg |-> message, num |-> PyNone],
                      [fn |-> "read", msg |-> <<>>, num |-> size]>>,
          ret |-> r.ret, exc |-> r.exc]

\* C13: query(msg, delay=0, size) makes the calls, returns the value and
\* raises the error of write(msg) followed by read(size).
C13_QueryZeroDelayIsWriteThenRead ==
    (QueryDone /\ Halves(q.delay) = 0) =>
        [calls |-> calls, ret |-> out.ret, exc |-> last.exc]
            = WriteThenRead(q.message, q.size, obs.w, obs.r)

\* query('*IDN?', 0.0, 1) returned the reply of read.
C13_Witness ==
    /\ QueryDone
    /\ q.delay = PyFloat(0) /\ q.size = PyInt(1)
    /\ last.exc = "none"
    /\ obs.w.ret.kind = "int"
    /\ out.ret = RetStr(<<79, 75>>)

\* C14: when read starts in a query with delay d > 0, at least d has elapsed
\* since write returned.
C14_DelayElapsesBeforeRead ==
    (HasEvent("read") /\ Halves(q.delay) > 0) => obs.gap >= Halves(q.delay)

\* read starts exactly 1.0 s after write returned, in a query with delay 1.0.
C14_Witness ==
    /\ pc = "read"
    /\ q.delay = PyFloat(2)
    /\ obs.gap = 2

Contains(line, part) == \E i \in 1..Len(line) : line[i] = part

\* C15: raise_timeout never returns: it logs exactly one line and then raises
\* MSLTimeoutError; the line and the message of the error hold the repr of the
\* object, the timeout, and append_msg when it is not empty.
C15_RaiseTimeoutLogsThenRaises ==
    (last.op = "raise_timeout" /\ pc = "idle") =>
        /\ last.exc = "MSLTimeoutError"
        /\ events = <<"log_error", "raise">>
        /\ Len(out.log) = 1
        /\ \A text \in {out.log[1], out.msg} :
             /\ Contains(text, Repr)
             /\ Contains(text, Fmt(timeout))
             /\ last.arg.text # "" => Contains(text, Lit(last.arg.text))

\* raise_timeout('reading') with a timeout of 0.5 s.
C15_Witness ==
    /\ last.op = "raise_timeout" /\ pc = "idle"
    /\ last.arg = AppendMsg("reading")
    /\ timeout = PyFloat(1)
    /\ Len(out.log) = 1

\* C16: no step of query, and no call of raise_timeout, changes
\* read_termination, write_termination, encoding, max_read_size or timeout.
C16_IOKeepsConfig ==
    [][(pc # "idle" \/ pc' # "idle" \/ last'.op = "raise_timeout") => config' = config]_vars

\* raise_timeout was called on an object configured away from the defaults.
C16_Witness ==
    /\ last.op = "raise_timeout" /\ pc = "idle"
    /\ timeout = PyFloat(1) /\ encoding = "ascii" /\ max_read_size = PyInt(2)
    /\ config = prev

\* C17: write transmits the message followed by write_termination when it is
\* set, the message alone when it is not, encoded with the encoding, and
\* returns the number of bytes transmitted.
C17_WriteSendsTerminatedMessage ==
    HasEvent("write_done") =>
        /\ obs.sent = Encode(IF write_termination = TermNone THEN q.message
                             ELSE q.message \o write_termination.s,
                             EncName(encoding)).bytes
        /\ obs.w.ret = RetInt(Len(obs.sent))
        /\ (q.message = <<42, 73, 68, 78, 63>> /\ write_termination = TermStr(<<13, 10>>)
              /\ encoding \in {"utf-8", "ascii"})
             => obs.sent = <<42, 73, 68, 78, 63, 13, 10>>

\* '*IDN?' was written with the termination LF in utf-16: 14 bytes.
C17_Witness ==
    /\ HasEvent("write_done")
    /\ write_termination = TermStr(<<10>>) /\ encoding = "utf-16"
    /\ obs.sent = <<255, 254, 42, 0, 73, 0, 68, 0, 78, 0, 63, 0, 10, 0>>
    /\ obs.w.ret = RetInt(14)

Setters == {"encoding", "read_termination", "write_termination", "max_read_size", "timeout"}

\* C27: after a call of a configuration setter, accepted or rejected, the
\* four other configuration fields hold the values they had before the call.
C27_SetterChangesOnlyItsField ==
    (pc = "idle" /\ last.op \in Setters) =>
        \A f \in Setters \ {last.op} : config[f] = prev[f]

\* A rejected max_read_size on an object whose encoding, terminations and
\* timeout were all changed before: they are what they were.
C27_Witness ==
    /\ pc = "idle" /\ last.op = "max_read_size" /\ last.exc = "ValueError"
    /\ encoding = "utf-16" /\ timeout = PyFloat(1)
    /\ read_termination = TermNone /\ write_termination = TermStr(LF)
    /\ prev = config

\* C28: on an object whose class does not override read and write, write and
\* read raise NotImplementedError, and query raises it from its write,
\* having called write once and neither time.sleep nor read.
C28_BaseClassNotImplemented ==
    /\ (~overridden /\ pc = "idle" /\ last.op \in {"write", "read"}) =>
           last.exc = "NotImplementedError"
    /\ (~overridden /\ QueryDone) =>
           /\ last.exc = "NotImplementedError"
           /\ obs.w.exc = "NotImplementedError"
           /\ events = <<"write", "write_raise">>
           /\ calls = <<WriteCall(q.message)>>
    /\ (~overridden /\ pc # "idle") => pc = "write"

\* A query with a positive delay and a size, on such an object, has failed.
C28_Witness ==
    /\ ~overridden /\ QueryDone
    /\ q.delay = PyFloat(2) /\ q.size = PyInt(1)
    /\ last.exc = "NotImplementedError"

\* ===================================================== KCubeStepperMotor
\* src/msl/equipment/resources/thorlabs/kinesis/kcube_stepper_motor.py: a
\* wrapper around the Kinesis SDK.  dev holds the parameters the SDK stores,
\* and the last wrapper call: its name, arguments, the SDK calls it made,
\* what it returned and what it raised.

\* A Python int x, written x = hi * 2^16 + lo with 0 <= lo < 2^16, so that
\* values outside 32 bits can be written down.
HalfWord == 2^16
Big(hi, lo) == [hi |-> hi, lo |-> lo]
Small(n) == Big(0, n)

\* ctypes.c_int is 32 bits wide; a Python int passed as one wraps.
c_int(x) == Big(((x.hi + HalfWord \div 2) % HalfWord) - HalfWord \div 2, x.lo)
InCInt(x) == x.hi >= -(HalfWord \div 2) /\ x.hi < HalfWord \div 2

\* set_power_params, lines 2013 and 2015: the largest percentage.
MaxPercent == 100

\* The values of the members of the enums (enums.py).
MOT_JogModes == {0, 1, 2}
MOT_StopModes == {0, 1, 2}
KMOT_JoyStickMode == {1, 2, 3}
KMOT_JoystickDirectionSense == {1, 2}

Member(enum, value) == [enum |-> enum, value |-> value]

\* Connection.convert_to_enum(item, enum): the member with that value, or an
\* error when there is none.
convert_to_enum(item, enum, values) ==
    IF item \in values THEN [exc |-> "none", val |-> Member(enum, item)]
    ELSE [exc |-> "ValueError", val |-> Member(enum, item)]

\* The SDK stores the acceleration and the maximum velocity it is given
\* (SCC_SetVelParams(serialNo, acceleration, maxVelocity)) and hands them
\* back in that order (SCC_GetVelParams(serialNo, &acceleration, &maxVelocity)).
sdk_SetVelParams(arg1, arg2) == [acceleration |-> c_int(arg1), maxVelocity |-> c_int(arg2)]
sdk_GetVelParams(stored) == <<stored.acceleration, stored.maxVelocity>>

SdkCall(fn, args, outs) == [fn |-> fn, args |-> args, outs |-> outs]

\* get_jog_mode, line 322: both members are built from mode.value.
get_jog_mode(mode, stop_mode) ==
    <<Member("MOT_JogModes", mode), Member("MOT_StopModes", mode)>>

\* set_vel_params / set_jog_vel_params passing (max_velocity, acceleration).
set_vel_params_swapped(max_velocity, acceleration) == <<max_velocity, acceleration>>

\* set_vel_params, line 2163, and set_jog_vel_params, line 1635: the
\* arguments handed to the SDK after the serial number.
set_vel_params(max_velocity, acceleration) == <<acceleration, max_velocity>>

\* get_vel_params, lines 961-964, and get_jog_vel_params, lines 372-375: the
\* SDK fills (acceleration, max_velocity); (max_velocity, acceleration) is returned.
get_vel_params(out1, out2) ==
    LET acceleration == out1
        max_velocity == out2
    IN <<max_velocity, acceleration>>

\* set_mmi_params_ext, lines 1784-1788: the exception raised, and the
\* arguments handed to SCC_SetMMIParamsExt after the serial number.
set_mmi_params_ext(joystick_mode, direction_sense, rest, display_timeout, display_dim) ==
    LET mode == convert_to_enum(joystick_mode, "KMOT_JoyStickMode", KMOT_JoyStickMode)
        sense == convert_to_enum(joystick_mode, "KMOT_JoystickDirectionSense",
                                 KMOT_JoystickDirectionSense)
    IN IF mode.exc # "none" THEN [exc |-> mode.exc, args |-> <<>>]
       ELSE IF sense.exc # "none" THEN [exc |-> sense.exc, args |-> <<>>]
       ELSE [exc |-> "none",
             args |-> <<mode.val.value, rest[1], rest[2], sense.val.value,
                        rest[3], rest[4], rest[5], display_timeout, display_dim>>]

\* Connection.raise_exception(msg): raises the exception class of the
\* connection, which for a Kinesis connection is ThorlabsError.
raise_exception(msg) == "ThorlabsError"

\* set_power_params checking rest only.
set_power_params_unchecked_move(rest, move) ==
    IF rest < 0 \/ rest > MaxPercent
    THEN [exc |-> "ValueError", sdk |-> <<>>]
    ELSE [exc |-> "none",
          sdk |-> <<SdkCall("SCC_SetPowerParams",
                            <<[restPercentage |-> rest, movePercentage |-> move]>>, <<>>)>>]

\* set_power_params, lines 2013-2020: the exception raised and the SDK calls
\* made, with the MOT_PowerParameters handed over.
set_power_params(rest, move) ==
    IF rest < 0 \/ rest > MaxPercent THEN [exc |-> "ValueError", sdk |-> <<>>]
    ELSE IF move < 0 \/ move > MaxPercent THEN [exc |-> "ValueError", sdk |-> <<>>]
    ELSE [exc |-> "none",
          sdk |-> <<SdkCall("SCC_SetPowerParams",
                            <<[restPercentage |-> rest, movePercentage |-> move]>>, <<>>)>>]

\* A ctypes structure of the given type, or another Python object.
Struct(type) == [type |-> type]

\* The struct-taking setters: the struct type each requires, the SDK
\* function each calls, and what each does with an argument of another type.
BlockSetters == {"set_jog_params_block", "set_pid_loop_encoder_params",
                 "set_trigger_config_params_block", "set_trigger_params_params_block"}

RequiredStruct(setter) ==
    CASE setter = "set_jog_params_block" -> "MOT_JogParameters"
      [] setter = "set_pid_loop_encoder_params" -> "MOT_PIDLoopEncoderParams"
      [] setter = "set_trigger_config_params_block" -> "KMOT_TriggerConfig"
      [] setter = "set_trigger_params_params_block" -> "KMOT_TriggerParams"

SdkSetter(setter) ==
    CASE setter = "set_jog_params_block" -> "SCC_SetJogParamsBlock"
      [] setter = "set_pid_loop_encoder_params" -> "SCC_SetPIDLoopEncoderParams"
      [] setter = "set_trigger_config_params_block" -> "SCC_SetTriggerConfigParamsBlock"
      [] setter = "set_trigger_params_params_block" -> "SCC_SetTriggerParamsParamsBlock"

\* lines 1595-1596 raise TypeError; lines 1972-1973, 2086-2087 and 2141-2142
\* call self.raise_exception.
WrongType(setter) ==
    IF setter = "set_jog_params_block" THEN "TypeError"
    ELSE raise_exception("Must pass in a structure")

block_setter(setter, params) ==
    IF params.type # RequiredStruct(setter)
    THEN [exc |-> WrongType(setter), sdk |-> <<>>]
    ELSE [exc |-> "none", sdk |-> <<SdkCall(SdkSetter(setter), <<params>>, <<>>)>>]

\* home and move_to_position returning without the wait.
after_command_never_waits(wait) == "idle"

\* home, lines 1016-1018, and move_to_position, lines 1152-1154: what follows
\* the SDK command once it has returned.
after_command(wait) == IF wait THEN "wait" ELSE "idle"

\* The message type handed to self._wait: 0 after SCC_Home, 1 after
\* SCC_MoveToPosition.
wait_message_type(op) == IF op = "home" THEN 0 ELSE 1

\* record.connection.properties: with or without the key 'load_settings'.
NoProperty == [present |-> FALSE, value |-> TRUE]
Property(value) == [present |-> TRUE, value |-> value]

\* properties.get('load_settings', True), line 60
get_load_settings(properties) == IF properties.present THEN properties.value ELSE TRUE

\* load_settings, lines 1045-1046: ok is what SCC_LoadSettings returned.
load_settings(ok) ==
    [exc |-> IF ~ok THEN raise_exception("Error loading the stored settings.") ELSE "none",
     sdk |-> <<SdkCall("SCC_LoadSettings", <<>>, <<ok>>)>>]

\* persist_settings, lines 1186-1187: ok is what SCC_PersistSettings returned.
persist_settings(ok) ==
    [exc |-> IF ~ok THEN raise_exception("Error to persist the current settings.")
             ELSE "none",
     sdk |-> <<SdkCall("SCC_PersistSettings", <<>>, <<ok>>)>>]

\* A constructor that always loads the settings.
kcube_init_always_loads(properties, ok) == load_settings(ok)

\* __init__, lines 59-61 (after MotionControl.__init__)
kcube_init(properties, ok) ==
    IF get_load_settings(properties) THEN load_settings(ok)
    ELSE [exc |-> "none", sdk |-> <<>>]

\* set_motor_params, line 1816, and set_motor_params_ext, line 1842: the SDK
\* call each makes.
set_motor_params(steps_per_rev, gear_box_ratio, pitch) ==
    SdkCall("SCC_SetMotorParams", <<steps_per_rev, gear_box_ratio, pitch>>, <<>>)

set_motor_params_ext(steps_per_rev, gear_box_ratio, pitch) ==
    SdkCall("SCC_SetMotorParamsExt", <<steps_per_rev, gear_box_ratio, pitch>>, <<>>)

\* needs_homing, line 1166, and can_move_without_homing_first, line 81: the
\* SDK function each asks; each returns what that function returned.
needs_homing == "SCC_NeedsHoming"
can_move_without_homing_first == "SCC_CanMoveWithoutHomingFirst"

\* A connected KCubeStepperMotor on which nothing was called, made with the
\* property load_settings false.
KCubeInit ==
    [kind |-> "kcube", pc |-> "idle",
     vel |-> [acceleration |-> Small(0), maxVelocity |-> Small(0)],
     jog |-> [acceleration |-> Small(0), maxVelocity |-> Small(0)],
     set_vel |-> <<>>,
     set_jog |-> <<>>,
     op |-> "__init__", args |-> <<Property(FALSE)>>, sdk |-> <<>>, ret |-> <<>>,
     exc |-> "none"]

\* The object exists and no call on it is in progress.
KIdle == dev.kind = "kcube" /\ dev.pc = "idle"

\* ------------------------------------------------------------------ inputs
\* small values, -1, 2^31 - 1 and 2^31
Velocities ==
    {Small(n) : n \in 0..MaxNum}
        \cup {Big(-1, HalfWord - 1),
              Big(HalfWord \div 2 - 1, HalfWord - 1), Big(HalfWord \div 2, 0)}
\* small values and 2^31
Accelerations == {Small(n) : n \in 1..MaxNum} \cup {Big(HalfWord \div 2, 0)}
JogOutputs == {0, 1, 2}
ModeArgs == {0, 1, 2, 3}
SenseArgs == {1, 2}
\* joystick_max_velocity, joystick_acceleration, preset_position1,
\* preset_position2, display_intensity
MmiRest == {<<1, 2, 3, 4, 50>>}
Percentages == (0..MaxNum) \cup {-1, MaxPercent, MaxPercent + 1}
StructArgs == {Struct(RequiredStruct(s)) : s \in BlockSetters} \cup {Struct("int")}
Positions == 0..MaxNum
\* steps_per_rev, gear_box_ratio, pitch
MotorArgs == {<<m, 1, 2>> : m \in 1..MaxNum}
Properties == {NoProperty, Property(TRUE), Property(FALSE)}
\* what an SDK command that fails raises
SdkErrors == {"ThorlabsError"}

\* ----------------------------------------------------------------- actions
ConnectionUnchanged ==
    UNCHANGED <<read_termination, write_termination, encoding, max_read_size, timeout,
                overridden, pc, q, events, last, prev, calls, obs, out>>

\* get_jog_mode(): the SDK writes mode and stop_mode.
GetJogMode(mode, stop_mode) ==
    /\ KIdle
    /\ dev' = [dev EXCEPT !.op = "get_jog_mode", !.args = <<>>,
                 !.sdk = <<SdkCall("SCC_GetJogMode", <<>>, <<mode, stop_mode>>)>>,
                 !.ret = get_jog_mode(mode, stop_mode),
                 !.exc = "none"]
    /\ ConnectionUnchanged

SetVelParams(max_velocity, acceleration) ==
    LET a == set_vel_params(max_velocity, acceleration) IN
    /\ KIdle
    /\ dev' = [dev EXCEPT !.op = "set_vel_params", !.args = <<max_velocity, acceleration>>,
                 !.sdk = <<SdkCall("SCC_SetVelParams", a, <<>>)>>,
                 !.vel = sdk_SetVelParams(a[1], a[2]),
                 !.set_vel = <<max_velocity, acceleration>>,
                 !.ret = <<>>, !.exc = "none"]
    /\ ConnectionUnchanged

GetVelParams ==
    LET o == sdk_GetVelParams(dev.vel) IN
    /\ KIdle
    /\ dev' = [dev EXCEPT !.op = "get_vel_params", !.args = <<>>,
                 !.sdk = <<SdkCall("SCC_GetVelParams", <<>>, o)>>,
                 !.ret = get_vel_params(o[1], o[2]),
                 !.exc = "none"]
    /\ ConnectionUnchanged

SetJogVelParams(max_velocity, acceleration) ==
    LET a == set_vel_params(max_velocity, acceleration) IN
    /\ KIdle
    /\ dev' = [dev EXCEPT !.op = "set_jog_vel_params",
                 !.args = <<max_velocity, acceleration>>,
                 !.sdk = <<SdkCall("SCC_SetJogVelParams", a, <<>>)>>,
                 !.jog = sdk_SetVelParams(a[1], a[2]),
                 !.set_jog = <<max_velocity, acceleration>>,
                 !.ret = <<>>, !.exc = "none"]
    /\ ConnectionUnchanged

GetJogVelParams ==
    LET o == sdk_GetVelParams(dev.jog) IN
    /\ KIdle
    /\ dev' = [dev EXCEPT !.op = "get_jog_vel_params", !.args = <<>>,
                 !.sdk = <<SdkCall("SCC_GetJogVelParams", <<>>, o)>>,
                 !.ret = get_vel_params(o[1], o[2]),
                 !.exc = "none"]
    /\ ConnectionUnchanged

MmiCall(op, joystick_mode, direction_sense, rest, display_timeout, display_dim) ==
    LET r == set_mmi_params_ext(joystick_mode, direction_sense, rest, display_timeout,
                                display_dim)
    IN
    /\ KIdle
    /\ dev' = [dev EXCEPT !.op = op,
                 !.args = <<joystick_mode, direction_sense>>,
                 !.sdk = IF r.exc = "none"
                         THEN <<SdkCall("SCC_SetMMIParamsExt", r.args, <<>>)>>
                         ELSE <<>>,
                 !.ret = <<>>, !.exc = r.exc]
    /\ ConnectionUnchanged

SetMmiParamsExt(joystick_mode, direction_sense, rest) ==
    \E display_timeout \in {0, 1}, display_dim_intensity \in {8, 10} :
        MmiCall("set_mmi_params_ext", joystick_mode, direction_sense, rest,
                display_timeout, display_dim_intensity)

\* set_mmi_params, lines 1728-1729: set_mmi_params_ext with a display timeout
\* of 1 minute and a dimmed intensity of 8.
SetMmiParams(joystick_mode, direction_sense, rest) ==
    MmiCall("set_mmi_params", joystick_mode, direction_sense, rest, 1, 8)

\* A call that runs to its end in one step: what it was, the SDK calls it
\* made, what it returned and what it raised.
Called(op, args, sdk, ret, exc) ==
    /\ KIdle
    /\ dev' = [dev EXCEPT !.op = op, !.args = args, !.sdk = sdk, !.ret = ret, !.exc = exc]
    /\ ConnectionUnchanged

SetPowerParams(rest, move) ==
    Called("set_power_params", <<rest, move>>, set_power_params(rest, move).sdk, <<>>,
           set_power_params(rest, move).exc)

\* set_jog_params_block, set_pid_loop_encoder_params,
\* set_trigger_config_params_block, set_trigger_params_params_block
BlockSetter(setter, params) ==
    Called(setter, <<params>>, block_setter(setter, params).sdk, <<>>,
           block_setter(setter, params).exc)

\* home(wait) and move_to_position(index, wait) are entered and issue the
\* SDK command; wait is the last argument.
Command(op, fn, args, wait) ==
    /\ KIdle
    /\ dev' = [dev EXCEPT !.pc = "command", !.op = op, !.args = args \o <<wait>>,
                 !.sdk = <<SdkCall(fn, args, <<>>)>>, !.ret = <<>>, !.exc = "none"]
    /\ ConnectionUnchanged

Home(wait) == Command("home", "SCC_Home", <<>>, wait)

MoveToPosition(index, wait) == Command("move_to_position", "SCC_MoveToPosition", <<index>>, wait)

\* The SDK command returns: the method returns, or calls self._wait.
CommandReturn ==
    LET wait == dev.args[Len(dev.args)]
        waiting == after_command(wait) = "wait"
    IN
    /\ dev.kind = "kcube" /\ dev.pc = "command"
    /\ dev' = [dev EXCEPT !.pc = after_command(wait),
                 !.sdk = IF waiting
                         THEN @ \o <<SdkCall("_wait", <<wait_message_type(dev.op)>>, <<>>)>>
                         ELSE @]
    /\ ConnectionUnchanged

\* The SDK command fails: the error leaves the method.
CommandRaise(e) ==
    /\ dev.kind = "kcube" /\ dev.pc = "command"
    /\ dev' = [dev EXCEPT !.pc = "idle", !.exc = e]
    /\ ConnectionUnchanged

\* self._wait returns, the device having finished, and the method returns.
WaitReturn ==
    /\ dev.kind = "kcube" /\ dev.pc = "wait"
    /\ dev' = [dev EXCEPT !.pc = "idle", !.sdk[Len(dev.sdk)].outs = <<"done">>]
    /\ ConnectionUnchanged

\* KCubeStepperMotor(record): a new object, or none when __init__ raises.
Construct(properties, ok) ==
    LET r == kcube_init(properties, ok) IN
    /\ dev.kind \in {"kcube", "failed"}
    /\ dev.pc = "idle"
    /\ dev' = [KCubeInit EXCEPT !.kind = IF r.exc = "none" THEN "kcube" ELSE "failed",
                               !.args = <<properties>>, !.sdk = r.sdk, !.exc = r.exc]
    /\ ConnectionUnchanged

LoadSettings(ok) ==
    Called("load_settings", <<>>, load_settings(ok).sdk, <<>>, load_settings(ok).exc)

PersistSettings(ok) ==
    Called("persist_settings", <<>>, persist_settings(ok).sdk, <<>>, persist_settings(ok).exc)

SetMotorParams(a) ==
    Called("set_motor_params", a, <<set_motor_params(a[1], a[2], a[3])>>, <<>>, "none")

SetMotorParamsExt(a) ==
    Called("set_motor_params_ext", a, <<set_motor_params_ext(a[1], a[2], a[3])>>, <<>>, "none")

\* needs_homing(): b is what the SDK function returns.
NeedsHoming(b) ==
    Called("needs_homing", <<>>, <<SdkCall(needs_homing, <<>>, <<b>>)>>, <<b>>, "none")

CanMoveWithoutHomingFirst(b) ==
    Called("can_move_without_homing_first", <<>>,
           <<SdkCall(can_move_without_homing_first, <<>>, <<b>>)>>, <<b>>, "none")

InitKCube ==
    /\ read_termination = InitConfig.read_termination
    /\ write_termination = InitConfig.write_termination
    /\ encoding = InitConfig.encoding
    /\ max_read_size = InitConfig.max_read_size
    /\ timeout = InitConfig.timeout
    /\ overridden = FALSE
    /\ pc = "idle"
    /\ q = NoCall
    /\ events = <<>>
    /\ last = [op |-> "__init__", arg |-> PyNone, exc |-> "none"]
    /\ prev = InitConfig
    /\ calls = <<>>
    /\ obs = NoObs
    /\ out = NoOut
    /\ dev = KCubeInit

NextKCube ==
    \/ \E m \in JogOutputs, s \in JogOutputs : GetJogMode(m, s)
    \/ \E v \in Velocities, a \in Accelerations : SetVelParams(v, a)
    \/ GetVelParams
    \/ \E v \in Velocities, a \in Accelerations : SetJogVelParams(v, a)
    \/ GetJogVelParams
    \/ \E m \in ModeArgs, s \in SenseArgs, r \in MmiRest : SetMmiParamsExt(m, s, r)
    \/ \E m \in ModeArgs, s \in SenseArgs, r \in MmiRest : SetMmiParams(m, s, r)
    \/ \E r \in Percentages, m \in Percentages : SetPowerParams(r, m)
    \/ \E s \in BlockSetters, p \in StructArgs : BlockSetter(s, p)
    \/ \E w \in BOOLEAN : Home(w)
    \/ \E i \in Positions, w \in BOOLEAN : MoveToPosition(i, w)
    \/ CommandReturn
    \/ \E e \in SdkErrors : CommandRaise(e)
    \/ WaitReturn
    \/ \E p \in Properties, ok \in BOOLEAN : Construct(p, ok)
    \/ \E ok \in BOOLEAN : LoadSettings(ok)
    \/ \E ok \in BOOLEAN : PersistSettings(ok)
    \/ \E a \in MotorArgs : SetMotorParams(a)
    \/ \E a \in MotorArgs : SetMotorParamsExt(a)
    \/ \E b \in BOOLEAN : NeedsHoming(b)
    \/ \E b \in BOOLEAN : CanMoveWithoutHomingFirst(b)

SpecKCube == InitKCube /\ [][NextKCube]_vars

\* C18: the second element get_jog_mode returns is the MOT_StopModes member
\* of the value the SDK wrote to stop_mode, whatever it wrote to mode.
C18_GetJogModeReturnsStopMode ==
    dev.op = "get_jog_mode" =>
        /\ dev.ret[1] = Member("MOT_JogModes", dev.sdk[1].outs[1])
        /\ dev.ret[2] = Member("MOT_StopModes", dev.sdk[1].outs[2])

\* C19: set_mmi_params_ext and set_mmi_params hand the SDK the joystick mode
\* of joystick_mode and the direction sense of direction_sense.
C19_MmiSenseFromDirectionSense ==
    (dev.op \in {"set_mmi_params_ext", "set_mmi_params"}
       /\ dev.args[1] \in KMOT_JoyStickMode
       /\ dev.args[2] \in KMOT_JoystickDirectionSense) =>
        /\ dev.exc = "none"
        /\ Len(dev.sdk) = 1
        /\ dev.sdk[1].args[1] = dev.args[1]
        /\ dev.sdk[1].args[4] = dev.args[2]

\* get_vel_params returns what the last set_vel_params was given, and
\* get_jog_vel_params what the last set_jog_vel_params was given.
VelRoundTrip ==
    /\ (dev.op = "get_vel_params" /\ dev.set_vel # <<>>) => dev.ret = dev.set_vel
    /\ (dev.op = "get_jog_vel_params" /\ dev.set_jog # <<>>) => dev.ret = dev.set_jog

\* C20, as stated: for all v and a, set_vel_params(v, a) then get_vel_params()
\* returns (v, a), and so for the jog pair.
C20_VelRoundTripAllInts == VelRoundTrip

\* C20, amended: for all v and a that fit a C int, set_vel_params(v, a) then
\* get_vel_params() returns (v, a), and so for the jog pair.
C20_VelRoundTripCInt ==
    /\ (dev.op = "get_vel_params" /\ dev.set_vel # <<>>
          /\ InCInt(dev.set_vel[1]) /\ InCInt(dev.set_vel[2])) => dev.ret = dev.set_vel
    /\ (dev.op = "get_jog_vel_params" /\ dev.set_jog # <<>>
          /\ InCInt(dev.set_jog[1]) /\ InCInt(dev.set_jog[2])) => dev.ret = dev.set_jog

\* set_jog_vel_params(1, 2) and then get_jog_vel_params() returning (1, 2),
\* with different move parameters stored.
C20_Witness ==
    /\ dev.op = "get_jog_vel_params"
    /\ dev.set_jog = <<Small(1), Small(2)>> /\ dev.ret = <<Small(1), Small(2)>>
    /\ dev.set_vel = <<Small(2), Small(1)>>
    /\ dev.jog = [acceleration |-> Small(2), maxVelocity |-> Small(1)]

\* C21: set_power_params(rest, move) raises ValueError and calls nothing
\* when rest or move is outside 0..100; otherwise it calls SCC_SetPowerParams
\* once, with restPercentage = rest and movePercentage = move.
C21_PowerParamsRange ==
    dev.op = "set_power_params" =>
        IF dev.args[1] \in 0..MaxPercent /\ dev.args[2] \in 0..MaxPercent
        THEN /\ dev.exc = "none"
             /\ Len(dev.sdk) = 1
             /\ dev.sdk[1].fn = "SCC_SetPowerParams"
             /\ dev.sdk[1].args[1].restPercentage = dev.args[1]
             /\ dev.sdk[1].args[1].movePercentage = dev.args[2]
        ELSE dev.exc = "ValueError" /\ dev.sdk = <<>>

\* set_power_params(100, 101) was rejected.
C21_Witness ==
    /\ dev.op = "set_power_params" /\ dev.args = <<MaxPercent, MaxPercent + 1>>
    /\ dev.exc = "ValueError" /\ dev.sdk = <<>>

\* C22: each of the four struct-taking setters, given an argument that is
\* not of its struct type, raises TypeError and does not call the SDK.
C22_BlockSettersRaiseTypeError ==
    (dev.op \in BlockSetters /\ dev.args[1].type # RequiredStruct(dev.op)) =>
        dev.exc = "TypeError" /\ dev.sdk = <<>>

\* C23: home and move_to_position issue the SDK command first; they wait
\* only after it returned and only when wait is true, and then return after
\* the wait has finished; when the command raises there is no wait.
C23_WaitAfterCommand ==
    dev.op \in {"home", "move_to_position"} =>
        LET wait == dev.args[Len(dev.args)]
            command == IF dev.op = "home" THEN "SCC_Home" ELSE "SCC_MoveToPosition"
            waited == Len(dev.sdk) = 2 /\ dev.sdk[2].fn = "_wait"
        IN /\ dev.sdk[1].fn = command
           /\ dev.pc = "command" => Len(dev.sdk) = 1
           /\ dev.pc = "wait" => wait /\ dev.exc = "none" /\ waited /\ dev.sdk[2].outs = <<>>
           /\ dev.pc = "idle" =>
                IF wait /\ dev.exc = "none"
                THEN waited /\ dev.sdk[2].outs = <<"done">>
                ELSE Len(dev.sdk) = 1

\* move_to_position(1, wait=True) has returned, after the wait.
C23_Witness ==
    /\ dev.op = "move_to_position" /\ dev.args = <<1, TRUE>> /\ dev.pc = "idle"
    /\ dev.exc = "none"
    /\ dev.sdk = <<SdkCall("SCC_MoveToPosition", <<1>>, <<>>), SdkCall("_wait", <<1>>, <<"done">>)>>

\* C24: the constructor calls load_settings once when the property
\* load_settings is absent or true, and not when it is false; load_settings
\* and persist_settings raise exactly when the SDK reports failure; a
\* constructor whose load fails raises.
C24_LoadSettingsAtConstruction ==
    /\ dev.op = "__init__" =>
          LET p == dev.args[1]
              load == ~p.present \/ p.value
          IN /\ load => Len(dev.sdk) = 1 /\ dev.sdk[1].fn = "SCC_LoadSettings"
             /\ ~load => dev.sdk = <<>>
             /\ dev.exc # "none" <=> (load /\ dev.sdk[1].outs = <<FALSE>>)
             /\ dev.kind = "failed" <=> dev.exc # "none"
    /\ dev.op \in {"load_settings", "persist_settings"} =>
          /\ Len(dev.sdk) = 1
          /\ dev.exc # "none" <=> dev.sdk[1].outs = <<FALSE>>

\* A constructor without the property, whose load failed.
C24_Witness ==
    /\ dev.op = "__init__" /\ dev.args = <<NoProperty>>
    /\ dev.kind = "failed" /\ dev.exc = "ThorlabsError"
    /\ dev.sdk = <<SdkCall("SCC_LoadSettings", <<>>, <<FALSE>>)>>

\* C25: set_motor_params makes the SDK call set_motor_params_ext makes with
\* the same arguments.
C25_SetMotorParamsCallsExt ==
    dev.op = "set_motor_params" =>
        dev.sdk = <<set_motor_params_ext(dev.args[1], dev.args[2], dev.args[3])>>

\* C26: needs_homing asks the SDK what can_move_without_homing_first asks,
\* and returns what it answers.
C26_NeedsHomingIsCanMove ==
    dev.op = "needs_homing" =>
        /\ Len(dev.sdk) = 1
        /\ dev.sdk[1].fn = can_move_without_homing_first
        /\ dev.ret = dev.sdk[1].outs

====
